---- MODULE Spec2Model ----
(***************************************************************************)
(* Fredo: the snippet store (fredo/core/database.py), the snippet model    *)
(* (fredo/core/models.py) and the fuzzy search engine                      *)
(* (fredo/core/search.py).                                                 *)
(*                                                                         *)
(* A Python str is a sequence of one-character strings, so that lower(),   *)
(* `in`, count(), slicing, json.dumps and SQL LIKE are computed character  *)
(* by character.  An Optional[T] is None or Some(v).                       *)
(***************************************************************************)
EXTENDS Integers, Sequences, FiniteSets, TLC

VARIABLES
    rows,       \* the snippets table of the database file, a set of rows
    now,        \* the value datetime.now() returns
    call,       \* the arguments of the last SearchEngine.search call, or None
    snippets,   \* what db.search returned to that call (search.py:46)
    results,    \* the list that call returned
    raised,     \* the exception the last store operation raised, or None
    sc_query,   \* _calculate_score: its query argument
    sc_snippet, \* _calculate_score: its snippet argument
    sc_score,   \* _calculate_score: its return value, None before the call
    pc,         \* "idle", or "returned" after an operation; "score" when
                \* _calculate_score is applied alone
    cmd,        \* the commands and calls in progress: for each, where it
                \* stands and its local variables
    fs          \* the files and directories that exist, of those
                \* SnippetRunner.run deals with

vars ==
    <<rows, now, call, snippets, results, raised, sc_query, sc_snippet, sc_score, pc,
      cmd, fs>>

\* typing.Optional: None, or Some(v) holding the value v
None == {}
Some(v) == {v}
Val(o) == CHOOSE v \in o : TRUE

\* ------------------------------------------------------------- bounds
\* longest query and longest snippet name drawn for _calculate_score
MaxLen == 2
\* most tags of a snippet drawn for _calculate_score
MaxTags == 2
\* most rows the snippets table is filled with
MaxRows == 2
\* the last value of the clock
MaxClock == 1
\* the largest limit search is called with
MaxLimit == 2
\* most SQL statements a block on one connection executes
MaxStatements == 1

\* ------------------------------------------------------------- strings
Min(a, b) == IF a < b THEN a ELSE b
Max(a, b) == IF a > b THEN a ELSE b

\* the letters queries, names and contents are drawn from
Letters == {"a", "b", "A"}

\* str.lower() on one character
LowerChar(c) ==
    CASE c = "A" -> "a"
      [] c = "B" -> "b"
      [] OTHER -> c

\* str.lower()
Lower(s) == [i \in 1..Len(s) |-> LowerChar(s[i])]

\* q in s
Contains(s, q) ==
    \E i \in 0..(Len(s) - Len(q)) : SubSeq(s, i + 1, i + Len(q)) = q

\* s.count(q) for a non-empty q: occurrences that do not overlap, from the left
RECURSIVE CountFrom(_, _, _)
CountFrom(s, q, i) ==
    IF i + Len(q) - 1 > Len(s) THEN 0
    ELSE IF SubSeq(s, i, i + Len(q) - 1) = q
         THEN 1 + CountFrom(s, q, i + Len(q))
         ELSE CountFrom(s, q, i + 1)

Count(s, q) == CountFrom(s, q, 1)

\* s[:n]
Take(s, n) == SubSeq(s, 1, Min(n, Len(s)))

\* every string over S of length lo..hi
Strings(S, lo, hi) == UNION {[1..k -> S] : k \in lo..hi}

\* ------------------------------------------------------------- thefuzz
\* length of the longest common subsequence of a[1..i] and b[1..j]
RECURSIVE LCS(_, _, _, _)
LCS(a, b, i, j) ==
    IF i = 0 \/ j = 0 THEN 0
    ELSE IF a[i] = b[j] THEN 1 + LCS(a, b, i - 1, j - 1)
    ELSE Max(LCS(a, b, i - 1, j), LCS(a, b, i, j - 1))

\* int(round(x)) of x = num / den, Python's round: halves go to the even side
RoundDiv(num, den) ==
    LET q == num \div den
        r == num % den
    IN  IF 2 * r > den THEN q + 1
        ELSE IF 2 * r < den THEN q
        ELSE IF q % 2 = 0 THEN q ELSE q + 1

\* fuzz.ratio(a, b): the normalized indel similarity, 100 * 2 * lcs / (|a| + |b|),
\* rounded to an integer; two empty strings are equal
ratio(a, b) ==
    IF Len(a) + Len(b) = 0 THEN 100
    ELSE RoundDiv(200 * LCS(a, b, Len(a), Len(b)), Len(a) + Len(b))

\* the windows of the longer string l that fuzz.partial_ratio aligns the
\* shorter string (of length n) with: the prefixes shorter than n, every
\* window of length n, the suffixes shorter than n
Windows(l, n) ==
    {SubSeq(l, 1, i) : i \in 1..(n - 1)}
        \cup {SubSeq(l, i, i + n - 1) : i \in 1..(Len(l) - n + 1)}
        \cup {SubSeq(l, i, Len(l)) : i \in (Len(l) - n + 2)..Len(l)}

\* the best ratio of s against a window of l, Len(s) <= Len(l)
PartialAligned(s, l) ==
    LET scores == {ratio(s, w) : w \in Windows(l, Len(s))}
    IN  IF scores = {} THEN 0
        ELSE CHOOSE m \in scores : \A x \in scores : x <= m

\* fuzz.partial_ratio(a, b)
partial_ratio(a, b) ==
    IF Len(a) = 0 /\ Len(b) = 0 THEN 100
    ELSE IF Len(a) = 0 \/ Len(b) = 0 THEN 0
    ELSE IF Len(a) < Len(b) THEN PartialAligned(a, b)
    ELSE IF Len(b) < Len(a) THEN PartialAligned(b, a)
    ELSE Max(PartialAligned(a, b), PartialAligned(b, a))

\* ------------------------------------------------------------- scoring
\* int(x * 0.9), int(x * 1.1), int(x * 0.5) of an integer x >= 0: the double
\* products truncate to these quotients for every x below 2000
Int09(x) == (9 * x) \div 10
Int11(x) == (11 * x) \div 10
Int05(x) == x \div 2

\* search.py:94-99 giving the 70 only to a tag that is the query
RECURSIVE tag_score_equal(_, _)
tag_score_equal(query_lower, tags) ==
    IF tags = <<>> THEN 0
    ELSE LET tag == Lower(Head(tags))
             this == IF tag = query_lower THEN 70
                     ELSE IF ratio(query_lower, tag) > 80 THEN 50
                     ELSE 0
         IN  this + tag_score_equal(query_lower, Tail(tags))

\* search.py:94-99, the loop over snippet.tags
RECURSIVE tag_score(_, _)
tag_score(query_lower, tags) ==
    IF tags = <<>> THEN 0
    ELSE LET tag == Lower(Head(tags))
             this == IF Contains(tag, query_lower) THEN 70
                     ELSE IF ratio(query_lower, tag) > 80 THEN 50
                     ELSE 0
         IN  this + tag_score(query_lower, Tail(tags))

\* search.py:102-111 without the cap of 50
content_score_uncapped(query_lower, content) ==
    LET content_lower == Lower(content)
    IN  IF Contains(content_lower, query_lower)
        THEN 20 + Count(content_lower, query_lower) * 5
        ELSE Int05(partial_ratio(query_lower, Take(content_lower, 500)))

\* search.py:113-132 boosting whatever the number of match types
combine_boosted(name_score, tagScore, contentScore) ==
    Min(100, Int11(Max(Max(Int09(name_score), tagScore), contentScore)))

\* search.py:102-111
content_score(query_lower, content) ==
    LET content_lower == Lower(content)
    IN  IF Contains(content_lower, query_lower)
        THEN Min(50, 20 + Count(content_lower, query_lower) * 5)
        ELSE Int05(partial_ratio(query_lower, Take(content_lower, 500)))

\* search.py:113-132 counting the name as a match when its weighted score,
\* int(name_score * 0.9), is above 60
combine_weighted(name_score, tagScore, contentScore) ==
    LET total_score == Max(Max(Int09(name_score), tagScore), contentScore)
        match_types == (IF Int09(name_score) > 60 THEN 1 ELSE 0)
                       + (IF tagScore > 0 THEN 1 ELSE 0)
                       + (IF contentScore > 0 THEN 1 ELSE 0)
    IN  IF match_types > 1 THEN Min(100, Int11(total_score)) ELSE total_score

\* search.py:113-132, from the three partial scores to the return value
combine(name_score, tagScore, contentScore) ==
    LET total_score == Max(Max(Int09(name_score), tagScore), contentScore)
        match_types == (IF name_score > 60 THEN 1 ELSE 0)
                       + (IF tagScore > 0 THEN 1 ELSE 0)
                       + (IF contentScore > 0 THEN 1 ELSE 0)
    IN  IF match_types > 1 THEN Min(100, Int11(total_score)) ELSE total_score

\* SearchEngine._calculate_score with str == for the exact match
_calculate_score_case_sensitive(query, snippet) ==
    LET query_lower == Lower(query)
        name_lower == Lower(snippet.name)
    IN  IF query = snippet.name THEN 100
        ELSE IF Contains(name_lower, query_lower) THEN 95
        ELSE combine(ratio(query_lower, name_lower),
                     tag_score(query_lower, snippet.tags),
                     content_score(query_lower, snippet.content))

\* SearchEngine._calculate_score with the substring test on the raw strings
_calculate_score_raw_substring(query, snippet) ==
    LET query_lower == Lower(query)
        name_lower == Lower(snippet.name)
    IN  IF query_lower = name_lower THEN 100
        ELSE IF Contains(snippet.name, query) THEN 95
        ELSE combine(ratio(query_lower, name_lower),
                     tag_score(query_lower, snippet.tags),
                     content_score(query_lower, snippet.content))

\* SearchEngine._calculate_score
_calculate_score(query, snippet) ==
    LET query_lower == Lower(query)
        name_lower == Lower(snippet.name)
    IN  IF query_lower = name_lower THEN 100
        ELSE IF Contains(name_lower, query_lower) THEN 95
        ELSE combine(ratio(query_lower, name_lower),
                     tag_score(query_lower, snippet.tags),
                     content_score(query_lower, snippet.content))

\* ------------------------------------------------------------- models.py
\* str.strip(): leading and trailing blanks removed
RECURSIVE lstrip(_)
lstrip(s) == IF s # <<>> /\ Head(s) = " " THEN lstrip(Tail(s)) ELSE s

RECURSIVE rstrip(_)
rstrip(s) ==
    IF s # <<>> /\ s[Len(s)] = " " THEN rstrip(SubSeq(s, 1, Len(s) - 1)) ELSE s

strip(s) == rstrip(lstrip(s))

\* Snippet.validate_tags: [tag.strip().lower() for tag in v if tag.strip()]
RECURSIVE validate_tags(_)
validate_tags(v) ==
    IF v = <<>> THEN <<>>
    ELSE IF strip(Head(v)) # <<>>
         THEN <<Lower(strip(Head(v)))>> \o validate_tags(Tail(v))
         ELSE validate_tags(Tail(v))

\* one character inside a JSON string, as json.dumps writes it
JsonChar(c) ==
    CASE c = "\"" -> <<"\\", "\"">>
      [] c = "\\" -> <<"\\", "\\">>
      [] OTHER -> <<c>>

RECURSIVE JsonString(_)
JsonString(s) == IF s = <<>> THEN <<>> ELSE JsonChar(Head(s)) \o JsonString(Tail(s))

\* json.dumps(tags) of a list of str: ["t1", "t2"]
RECURSIVE JsonItems(_)
JsonItems(tags) ==
    IF tags = <<>> THEN <<>>
    ELSE <<"\"">> \o JsonString(Head(tags)) \o <<"\"">>
         \o (IF Tail(tags) = <<>> THEN <<>> ELSE <<",", " ">> \o JsonItems(Tail(tags)))

json_dumps(tags) == <<"[">> \o JsonItems(tags) \o <<"]">>

\* json.loads of such a text: the strings between the quotes, a backslash
\* taking the next character with it; i is the position, inside whether a
\* string is being read, cur what was read of it, acc the strings read
RECURSIVE JsonScan(_, _, _, _, _)
JsonScan(text, i, inside, cur, acc) ==
    IF i > Len(text) THEN acc
    ELSE IF ~inside
         THEN JsonScan(text, i + 1, text[i] = "\"", <<>>, acc)
    ELSE IF text[i] = "\\" /\ i < Len(text)
         THEN JsonScan(text, i + 2, TRUE, Append(cur, text[i + 1]), acc)
    ELSE IF text[i] = "\"" THEN JsonScan(text, i + 1, FALSE, <<>>, Append(acc, cur))
    ELSE JsonScan(text, i + 1, TRUE, Append(cur, text[i]), acc)

json_loads(text) == JsonScan(text, 1, FALSE, <<>>, <<>>)

\* Snippet(...): the model object, its tags validated on construction.
\* created_at is left out: create writes it, and nothing reads or changes it.
Snippet(id, name, content, language, tags, execution_mode, gist_id, gist_url, updated_at) ==
    [id |-> id, name |-> name, content |-> content, language |-> language,
     tags |-> validate_tags(tags), execution_mode |-> execution_mode,
     gist_id |-> gist_id, gist_url |-> gist_url, updated_at |-> updated_at]

\* Snippet.to_db_dict: the row written for a snippet
to_db_dict(s) == [s EXCEPT !.tags = json_dumps(s.tags)]

\* Snippet.from_db_dict: the snippet built from a row
from_db_dict(data) ==
    Snippet(data.id, data.name, data.content, data.language,
            IF data.tags # <<>> THEN json_loads(data.tags) ELSE <<>>,
            data.execution_mode, data.gist_id, data.gist_url, data.updated_at)

\* ------------------------------------------------------------- database.py
\* SQLite's text LIKE pattern from position i of text and j of pattern: % is
\* any run of characters, _ any one character, a letter matches in either case
RECURSIVE LikeFrom(_, _, _, _)
LikeFrom(text, pattern, i, j) ==
    IF j > Len(pattern) THEN i > Len(text)
    ELSE IF pattern[j] = "%"
         THEN \E k \in i..(Len(text) + 1) : LikeFrom(text, pattern, k, j + 1)
    ELSE IF pattern[j] = "_"
         THEN i <= Len(text) /\ LikeFrom(text, pattern, i + 1, j + 1)
    ELSE /\ i <= Len(text)
         /\ LowerChar(text[i]) = LowerChar(pattern[j])
         /\ LikeFrom(text, pattern, i + 1, j + 1)

Like(text, pattern) == LikeFrom(text, pattern, 1, 1)

\* Python's truth value of an Optional[str] or Optional[List[str]], of a
\* language (an Optional of a whole word) and of an Optional[int]
Truthy(o) == o # None /\ Val(o) # <<>>
TruthyWord(o) == o # None /\ Val(o) # ""
TruthyInt(o) == o # None /\ Val(o) # 0

\* the WHERE clause Database.search builds, on one row
Where(row, query, language, tags) ==
    /\ Truthy(query) =>
          \/ Like(row.name, <<"%">> \o Val(query) \o <<"%">>)
          \/ Like(row.content, <<"%">> \o Val(query) \o <<"%">>)
    /\ TruthyWord(language) => row.language = Val(language)
    /\ Truthy(tags) =>
          \E i \in 1..Len(Val(tags)) :
              Like(row.tags, <<"%", "\"">> \o Val(tags)[i] \o <<"\"", "%">>)

\* ORDER BY updated_at DESC with rows of the same updated_at in any order
Ordered_ties_free(S) ==
    {seq \in [1..Cardinality(S) -> S] :
        /\ \A i, j \in 1..Cardinality(S) : i # j => seq[i] # seq[j]
        /\ \A i, j \in 1..Cardinality(S) :
              i < j => seq[i].updated_at >= seq[j].updated_at}

\* the order ORDER BY updated_at DESC returns the rows of S in. SQL leaves the
\* order of rows with the same updated_at open; SQLite reads the table by
\* rowid and sorts, and its sorter keeps rows of equal key in the order read,
\* so the order is a function of the table: two stores with the same rows
\* inserted in different orders return them differently, one store returns
\* them the same way every time
Ordered(S) ==
    {seq \in [1..Cardinality(S) -> S] :
        /\ \A i, j \in 1..Cardinality(S) : i # j => seq[i] # seq[j]
        /\ \A i, j \in 1..Cardinality(S) :
              i < j => \/ seq[i].updated_at > seq[j].updated_at
                       \/ /\ seq[i].updated_at = seq[j].updated_at
                          /\ seq[i].rowid < seq[j].rowid}

\* Database.search: the list of snippets it returns, as a set of one list
db_search(table, query, language, tags) ==
    {[i \in 1..Len(seq) |-> from_db_dict(seq[i])] :
        seq \in Ordered({row \in table : Where(row, query, language, tags)})}

\* the row SQLite keeps for the values data under the rowid it gave them
Row(data, rowid) ==
    [rowid |-> rowid, id |-> data.id, name |-> data.name, content |-> data.content,
     language |-> data.language, tags |-> data.tags,
     execution_mode |-> data.execution_mode, gist_id |-> data.gist_id,
     gist_url |-> data.gist_url, updated_at |-> data.updated_at]

\* the rowid SQLite gives an inserted row: one more than the largest in the table
NextRowid(table) ==
    IF table = {} THEN 1
    ELSE 1 + (CHOOSE m \in {row.rowid : row \in table} :
                 \A row \in table : row.rowid <= m)

\* the INSERT of Database.create: the primary key and the UNIQUE name
InsertFails(table, data) ==
    \E row \in table : row.id = data.id \/ row.name = data.name

\* the UPDATE of Database.update that never fails
UpdateFails_never(table, data) == FALSE

\* the UPDATE of Database.update: the UNIQUE name
UpdateFails(table, data) ==
    /\ \E old \in table : old.id = data.id
    /\ \E row \in table : row.id # data.id /\ row.name = data.name

\* ------------------------------------------------------------- search.py
\* search.py:50 taking the snippets last to first
no_query_results_reversed(found) ==
    [i \in 1..Len(found) |-> [snippet |-> found[Len(found) + 1 - i], score |-> 100]]

\* search.py:50
no_query_results(found) == [i \in 1..Len(found) |-> [snippet |-> found[i], score |-> 100]]

\* search.py:56-60 keeping every scored snippet
RECURSIVE scored_results_all(_, _)
scored_results_all(query, found) ==
    IF found = <<>> THEN <<>>
    ELSE LET score == _calculate_score(query, Head(found))
         IN  (IF score >= 0 THEN <<[snippet |-> Head(found), score |-> score]>>
              ELSE <<>>)
             \o scored_results_all(query, Tail(found))

\* search.py:56-60
RECURSIVE scored_results(_, _)
scored_results(query, found) ==
    IF found = <<>> THEN <<>>
    ELSE LET score == _calculate_score(query, Head(found))
         IN  (IF score > 0 THEN <<[snippet |-> Head(found), score |-> score]>>
              ELSE <<>>)
             \o scored_results(query, Tail(found))

\* a sort by score, descending, that puts a result before those of its score
RECURSIVE sort_unstable(_)
sort_unstable(rs) ==
    IF rs = <<>> THEN <<>>
    ELSE LET sorted == sort_unstable(SubSeq(rs, 1, Len(rs) - 1))
             x == rs[Len(rs)]
             k == Cardinality({i \in 1..Len(sorted) : sorted[i].score > x.score})
         IN  SubSeq(sorted, 1, k) \o <<x>> \o SubSeq(sorted, k + 1, Len(sorted))

\* results.sort(key=score) without reverse=True: the lowest score first
RECURSIVE sort_ascending(_)
sort_ascending(rs) ==
    IF rs = <<>> THEN <<>>
    ELSE LET sorted == sort_ascending(SubSeq(rs, 1, Len(rs) - 1))
             x == rs[Len(rs)]
             k == Cardinality({i \in 1..Len(sorted) : sorted[i].score <= x.score})
         IN  SubSeq(sorted, 1, k) \o <<x>> \o SubSeq(sorted, k + 1, Len(sorted))

\* search.py:63, results.sort(key=score, reverse=True): list.sort is stable
\* and stays so under reverse=True
RECURSIVE sort_by_score(_)
sort_by_score(rs) ==
    IF rs = <<>> THEN <<>>
    ELSE LET sorted == sort_by_score(SubSeq(rs, 1, Len(rs) - 1))
             x == rs[Len(rs)]
             k == Cardinality({i \in 1..Len(sorted) : sorted[i].score >= x.score})
         IN  SubSeq(sorted, 1, k) \o <<x>> \o SubSeq(sorted, k + 1, Len(sorted))

\* rs[:n] for any integer n
Slice(rs, n) ==
    IF n >= 0 THEN SubSeq(rs, 1, Min(n, Len(rs)))
    ELSE SubSeq(rs, 1, Max(0, Len(rs) + n))

\* search.py:65-66 cutting one short
truncate_short(rs, limit) == IF TruthyInt(limit) THEN Slice(rs, Val(limit) - 1) ELSE rs

\* search.py:51-52 and 65-66: if limit: results = results[:limit]
truncate(rs, limit) == IF TruthyInt(limit) THEN Slice(rs, Val(limit)) ELSE rs

\* search.py:48 as `if query is None`
not_query_is_none(query) == query = None

\* search.py:48, `not query`
not_query(query) == ~Truthy(query)

\* SearchEngine.search after line 46, on the list db.search returned
search(query, found, limit) ==
    IF not_query(query)
    THEN truncate(no_query_results(found), limit)
    ELSE truncate(sort_by_score(scored_results(Val(query), found)), limit)

\* ------------------------------------------------------------- the store and the engine
\* the ids uuid4 hands out; an id is only ever compared with another, so the
\* fresh one is taken to be the least id no row holds
Ids == 1..(MaxRows + 1)
uuid4 == CHOOSE id \in Ids :
            /\ \A row \in rows : row.id # id
            /\ \A other \in Ids : (\A row \in rows : row.id # other) => id <= other

\* what callers build new snippets from: name, content, language and the
\* tags as typed
Payloads ==
    {[name |-> <<"a">>, content |-> <<"b">>, language |-> "python", tags |-> <<>>],
     [name |-> <<"A">>, content |-> <<"b">>, language |-> "bash",
      tags |-> <<<<" ", "A">>>>],
     [name |-> <<"b">>, content |-> <<"b">>, language |-> "bash",
      tags |-> <<<<"B", " ">>, <<" ">>>>]}

\* the contents an edit writes
Contents == {<<"b">>, <<"a", "a">>}

\* the arguments search is called with
Queries == {None, Some(<<>>), Some(<<"a">>), Some(<<"B">>)}
LanguageFilters == {None, Some("python"), Some("PYTHON")}
TagFilters ==
    {None, Some(<<<<"A">>>>), Some(<<<<"_">>>>), Some(<<<<"a">>, <<"b">>>>)}
Limits == {None} \cup {Some(n) : n \in 0..MaxLimit}

\* the stores a caller may hand to SearchEngine: the global db of
\* database.py:230 and a Database of its own
Databases == {"db", "database"}

Init ==
    /\ pc = "idle"
    /\ rows = {}
    /\ now = 0
    /\ call = None
    /\ snippets = <<>>
    /\ results = <<>>
    /\ raised = None
    /\ sc_query = <<>> /\ sc_snippet = None /\ sc_score = None
    /\ cmd = <<>> /\ fs = {}

\* datetime.now() moves on
Tick ==
    /\ pc = "idle"
    /\ now < MaxClock
    /\ now' = now + 1
    /\ UNCHANGED <<rows, call, snippets, results, raised, sc_query, sc_snippet, sc_score, pc, cmd, fs>>

\* Database.create(snippet) by INSERT OR REPLACE: the new row takes the place
\* of the rows that hold its id or its name
create_or_replace(snippet) ==
    LET data == to_db_dict(snippet)
        kept == {row \in rows : row.id # data.id /\ row.name # data.name}
    IN  /\ pc = "idle"
        /\ (kept = rows) => NextRowid(rows) <= MaxRows
        /\ rows' = kept \cup {Row(data, NextRowid(rows))}
        /\ raised' = None
        /\ pc' = "returned"
        /\ UNCHANGED <<now, call, snippets, results, sc_query, sc_snippet, sc_score, cmd, fs>>

\* Database.create(snippet); the INSERT either fails, and get_connection rolls
\* back and raises, or adds the row
create(snippet) ==
    LET data == to_db_dict(snippet)
    IN  /\ pc = "idle"
        /\ IF InsertFails(rows, data)
           THEN /\ raised' = Some("IntegrityError")
                /\ UNCHANGED rows
           ELSE /\ NextRowid(rows) <= MaxRows   \* the model's table has MaxRows rowids
                /\ rows' = rows \cup {Row(data, NextRowid(rows))}
                /\ raised' = None
        /\ pc' = "returned"
        /\ UNCHANGED <<now, call, snippets, results, sc_query, sc_snippet, sc_score, cmd, fs>>

\* a caller builds Snippet(name=..., content=..., language=..., tags=...), the
\* id and the date by their default factories, and creates it
Create(p) ==
    create(Snippet(uuid4, p.name, p.content, p.language, p.tags, "current",
                   None, None, now))

\* Database.update(snippet); the UPDATE changes the row of that id, if any
update(snippet) ==
    LET data == to_db_dict([snippet EXCEPT !.updated_at = now])
    IN  /\ pc = "idle"
        /\ IF UpdateFails(rows, data)
           THEN /\ raised' = Some("IntegrityError")
                /\ UNCHANGED rows
           ELSE /\ rows' = {IF row.id = data.id THEN Row(data, row.rowid) ELSE row :
                                row \in rows}
                /\ raised' = None
        /\ pc' = "returned"
        /\ UNCHANGED <<now, call, snippets, results, sc_query, sc_snippet, sc_score, cmd, fs>>

\* a snippet read from the store, given another content, and written back
Update(old, content) ==
    /\ old \in rows
    /\ update([from_db_dict(old) EXCEPT !.content = content])

\* Database.delete(snippet_id)
Delete(id) ==
    /\ pc = "idle"
    /\ rows' = {row \in rows : row.id # id}
    /\ raised' = None
    /\ pc' = "returned"
    /\ UNCHANGED <<now, call, snippets, results, sc_query, sc_snippet, sc_score, cmd, fs>>

\* SearchEngine.search(query, language, tags, limit) that also writes the
\* time of the read into the rows it found
Search_touching(query, language, tags, limit) ==
    /\ pc = "idle"
    /\ \E found \in db_search(rows, None, language, tags) :
          /\ snippets' = found
          /\ results' = search(query, found, limit)
          /\ rows' = {IF \E i \in 1..Len(found) : found[i].id = row.id
                       THEN [row EXCEPT !.updated_at = now] ELSE row : row \in rows}
    /\ call' = Some([query |-> query, language |-> language, tags |-> tags,
                     limit |-> limit, times |-> 1])
    /\ pc' = "returned"
    /\ UNCHANGED <<now, raised, sc_query, sc_snippet, sc_score, cmd, fs>>

\* SearchEngine.search(query, language, tags, limit); times counts the calls
\* made with these arguments in a row
Search(query, language, tags, limit) ==
    /\ pc = "idle"
    /\ \E found \in db_search(rows, None, language, tags) :
          /\ snippets' = found
          /\ results' = search(query, found, limit)
    /\ call' = Some([query |-> query, language |-> language, tags |-> tags,
                     limit |-> limit, times |-> 1])
    /\ pc' = "returned"
    /\ UNCHANGED <<rows, now, raised, sc_query, sc_snippet, sc_score, cmd, fs>>

\* the caller calls search once more with the arguments of the call that has
\* just returned, and nothing changes the store in between
SearchAgain ==
    /\ pc = "returned"
    /\ call # None
    /\ Val(call).times = 1
    /\ \E found \in db_search(rows, None, Val(call).language, Val(call).tags) :
          /\ snippets' = found
          /\ results' = search(Val(call).query, found, Val(call).limit)
    /\ call' = Some([Val(call) EXCEPT !.times = 2])
    /\ UNCHANGED <<rows, now, raised, sc_query, sc_snippet, sc_score, pc, cmd, fs>>

\* SearchEngine(database=...): the class defines no __init__, so a call with
\* an argument raises TypeError and no engine is built over the given store
SearchEngine(database) ==
    /\ pc = "idle"
    /\ raised' = Some("TypeError")
    /\ pc' = "returned"
    /\ UNCHANGED <<rows, now, call, snippets, results, sc_query, sc_snippet, sc_score, cmd, fs>>

\* the caller has what the operation returned or raised
Return ==
    /\ pc = "returned"
    /\ pc' = "idle"
    /\ call' = None
    /\ snippets' = <<>>
    /\ results' = <<>>
    /\ raised' = None
    /\ cmd' = <<>>
    /\ UNCHANGED <<rows, now, sc_query, sc_snippet, sc_score, fs>>

Next ==
    \/ Tick
    \/ \E p \in Payloads : Create(p)
    \/ \E old \in rows, content \in Contents : Update(old, content)
    \/ \E id \in Ids : Delete(id)
    \/ \E query \in Queries, language \in LanguageFilters, tags \in TagFilters,
          limit \in Limits : Search(query, language, tags, limit)
    \/ SearchAgain
    \/ \E database \in Databases : SearchEngine(database)
    \/ Return

Spec == Init /\ [][Next]_vars

\* ------------------------------------------------------------- _calculate_score alone
\* the queries, names, contents and tag lists _calculate_score is applied to
\* a long name, and a query that is this name with one letter left out
BackupDatabase == <<"b", "a", "c", "k", "u", "p", "-", "d", "a", "t", "a", "b", "a", "s", "e">>
BckupDatabase == <<"b", "c", "k", "u", "p", "-", "d", "a", "t", "a", "b", "a", "s", "e">>

\* a content that holds one letter seven times
SevenTimes == [i \in 1..7 |-> "a"]

ScoreQueries == Strings(Letters, 0, MaxLen) \cup {BckupDatabase}
ScoreNames == Strings(Letters, 1, MaxLen) \cup {BackupDatabase}
ScoreContents ==
    {<<"b">>, <<"a", "b">>, <<"b", "a", "a">>, <<"A", "a", "a", "a">>, SevenTimes}
ScoreTags == {<<"a">>, <<"A", "b">>, <<" ", "b">>}
ScoreTagLists == Strings(ScoreTags, 0, MaxTags)

InitScore ==
    /\ pc = "score"
    /\ sc_query \in ScoreQueries
    /\ \E name \in ScoreNames, content \in ScoreContents, tags \in ScoreTagLists :
          sc_snippet = Snippet(1, name, content, "auto", tags, "current",
                               None, None, 0)
    /\ sc_score = None
    /\ rows = {} /\ now = 0 /\ call = None /\ snippets = <<>> /\ results = <<>>
    /\ raised = None
    /\ cmd = <<>> /\ fs = {}

Score ==
    /\ pc = "score"
    /\ sc_score = None
    /\ sc_score' = Some(_calculate_score(sc_query, sc_snippet))
    /\ UNCHANGED <<rows, now, call, snippets, results, raised, sc_query, sc_snippet, pc, cmd, fs>>

NextScore == Score

SpecScore == InitScore /\ [][NextScore]_vars

\* ------------------------------------------------------------- the store alone
\* the elements of a list, and the lists list(set) may give: the elements of
\* the set once each, in an order Python does not fix
Elements(seq) == {seq[i] : i \in 1..Len(seq)}
Lists(S) ==
    {seq \in [1..Cardinality(S) -> S] :
        \A i, j \in 1..Cardinality(S) : i # j => seq[i] # seq[j]}

\* [t for t in seq if t not in tags]
RECURSIVE Without(_, _)
Without(seq, tags) ==
    IF seq = <<>> THEN <<>>
    ELSE (IF Head(seq) \in Elements(tags) THEN <<>> ELSE <<Head(seq)>>)
         \o Without(Tail(seq), tags)

\* the tags typed on the command line of tag add and tag remove
TagArgs == {<<<<" ", "A">>>>, <<<<"a">>>>}

\* the updated_at a caller may build a snippet with instead of the default
Dates == 0..MaxClock

\* a caller builds Snippet(..., updated_at=...) and creates it
CreateAt(p, updated_at) ==
    create(Snippet(uuid4, p.name, p.content, p.language, p.tags, "current",
                   None, None, updated_at))

\* tag add: the snippet read by name, its tags set by assignment, which does
\* not run validate_tags, and written back
TagAdd(old, tags) ==
    /\ old \in rows
    /\ LET snippet == from_db_dict(old)
       IN  \E new \in Lists(Elements(snippet.tags) \cup Elements(tags)) :
              update([snippet EXCEPT !.tags = new])

\* tag remove
TagRemove(old, tags) ==
    /\ old \in rows
    /\ LET snippet == from_db_dict(old)
       IN  update([snippet EXCEPT !.tags = Without(snippet.tags, tags)])

NextStore ==
    \/ Tick
    \/ \E p \in Payloads : Create(p)
    \/ \E p \in Payloads, updated_at \in Dates : CreateAt(p, updated_at)
    \/ \E old \in rows, content \in Contents : Update(old, content)
    \/ \E old \in rows, tags \in TagArgs : TagAdd(old, tags)
    \/ \E old \in rows, tags \in TagArgs : TagRemove(old, tags)
    \/ \E id \in Ids : Delete(id)
    \/ Return

SpecStore == Init /\ [][NextStore]_vars

\* ------------------------------------------------------------- get_connection
\* with self.get_connection() as conn: a block of statements on one
\* connection. cmd[1] is the connection: at is where the block stands, table
\* the snippets table as the connection sees it, its own uncommitted writes
\* included, before the table when the connection was opened, and log the
\* statements the block has executed.
Conn == cmd[1]
InBlock == pc = "idle" /\ cmd # <<>> /\ Conn.at = "block"
MoreStatements == Len(Conn.log) < MaxStatements

\* database.py:32-36: sqlite3.connect(...), and the block is entered
get_connection ==
    /\ pc = "idle"
    /\ cmd = <<>>
    /\ cmd' = <<[at |-> "block", table |-> rows, before |-> rows, log |-> <<>>]>>
    /\ UNCHANGED <<rows, now, call, snippets, results, raised, sc_query, sc_snippet,
                   sc_score, pc, fs>>

\* how the block is left, committing whether or not an exception came
leave_committing(exc, statement) ==
    /\ rows' = Conn.table
    /\ raised' = exc
    /\ cmd' = <<[Conn EXCEPT !.at = "closed", !.log = @ \o statement]>>
    /\ pc' = "returned"
    /\ UNCHANGED <<now, call, snippets, results, sc_query, sc_snippet, sc_score, fs>>

\* database.py:36-42, how the block is left: conn.commit() after the last
\* statement; on an exception exc, raised by statement, conn.rollback() and
\* raise; conn.close()
leave(exc, statement) ==
    /\ rows' = IF exc = None THEN Conn.table ELSE rows
    /\ raised' = exc
    /\ cmd' = <<[Conn EXCEPT !.at = "closed", !.log = @ \o statement]>>
    /\ pc' = "returned"
    /\ UNCHANGED <<now, call, snippets, results, sc_query, sc_snippet, sc_score, fs>>

\* conn.execute("INSERT INTO snippets ..."), as in Database.create and in
\* test_database.py:527-569, of a snippet with a given id
ExecuteInsert(p, id) ==
    LET data == to_db_dict(Snippet(id, p.name, p.content, p.language, p.tags,
                                   "current", None, None, now))
        statement == <<[op |-> "INSERT", id |-> id, name |-> p.name]>>
    IN  /\ InBlock /\ MoreStatements
        /\ IF InsertFails(Conn.table, data)
           THEN leave(Some("IntegrityError"), statement)
           ELSE /\ NextRowid(Conn.table) <= MaxRows
                /\ cmd' = <<[Conn EXCEPT
                               !.table = @ \cup {Row(data, NextRowid(Conn.table))},
                               !.log = @ \o statement]>>
                /\ UNCHANGED <<rows, now, call, snippets, results, raised, sc_query,
                               sc_snippet, sc_score, pc, fs>>

\* conn.execute("DELETE FROM snippets WHERE id = ?"), as in Database.delete
ExecuteDelete(id) ==
    /\ InBlock /\ MoreStatements
    /\ cmd' = <<[Conn EXCEPT !.table = {row \in @ : row.id # id},
                             !.log = @ \o <<[op |-> "DELETE", id |-> id, name |-> <<>>]>>]>>
    /\ UNCHANGED <<rows, now, call, snippets, results, raised, sc_query, sc_snippet,
                   sc_score, pc, fs>>

\* an UPDATE that inserts the row when no row has the id
ExecuteUpsert(p, id) ==
    LET data == to_db_dict(Snippet(id, p.name, p.content, p.language, p.tags,
                                   "current", None, None, now))
        statement == <<[op |-> "UPDATE", id |-> id, name |-> p.name]>>
    IN  /\ InBlock /\ MoreStatements
        /\ cmd' = <<[Conn EXCEPT
                       !.table = IF \E row \in @ : row.id = id
                                 THEN {IF row.id = id THEN Row(data, row.rowid)
                                       ELSE row : row \in @}
                                 ELSE @ \cup {Row(data, NextRowid(@))},
                       !.log = @ \o statement]>>
        /\ UNCHANGED <<rows, now, call, snippets, results, raised, sc_query,
                       sc_snippet, sc_score, pc, fs>>

\* conn.execute("UPDATE snippets SET ... WHERE id = ?"), as in
\* Database.update, with the values of a snippet of a given id; a row of
\* another id holding the name makes it fail (UNIQUE), no row of the id makes
\* it change nothing
ExecuteUpdate(p, id) ==
    LET data == to_db_dict(Snippet(id, p.name, p.content, p.language, p.tags,
                                   "current", None, None, now))
        statement == <<[op |-> "UPDATE", id |-> id, name |-> p.name]>>
    IN  /\ InBlock /\ MoreStatements
        /\ IF UpdateFails(Conn.table, data)
           THEN leave(Some("IntegrityError"), statement)
           ELSE /\ cmd' = <<[Conn EXCEPT
                               !.table = {IF row.id = data.id THEN Row(data, row.rowid)
                                          ELSE row : row \in @},
                               !.log = @ \o statement]>>
                /\ UNCHANGED <<rows, now, call, snippets, results, raised, sc_query,
                               sc_snippet, sc_score, pc, fs>>

\* a statement of the block raises something else
Raise == InBlock /\ leave(Some("Exception"), <<[op |-> "raise", id |-> 0, name |-> <<>>]>>)

\* the block ends
Finish == InBlock /\ leave(None, <<>>)

\* gist pull: the snippet made from the Gist takes the place of the stored
\* snippet of its name, under that snippet's id, or is created
GistPull(p) ==
    /\ cmd = <<>>
    /\ IF \E row \in rows : row.name = p.name
       THEN LET existing == from_db_dict(CHOOSE row \in rows : row.name = p.name)
            IN  update(Snippet(existing.id, p.name, p.content, p.language, p.tags,
                               "current", Some("gist"), Some("url"), now))
       ELSE create(Snippet(uuid4, p.name, p.content, p.language, p.tags,
                           "current", Some("gist"), Some("url"), now))

NextConn ==
    \/ get_connection
    \/ \E p \in Payloads, id \in Ids : ExecuteInsert(p, id)
    \/ \E p \in Payloads, id \in Ids : ExecuteUpdate(p, id)
    \/ \E id \in Ids : ExecuteDelete(id)
    \/ Raise
    \/ Finish
    \/ \E p \in Payloads : GistPull(p)
    \/ Return

SpecConn == Init /\ [][NextConn]_vars

\* ------------------------------------------------------------- the docker store
\* the store of three snippets named docker, docker-compose and deploy-script,
\* the last with the content "uses docker heavily"; what is not given is the
\* constructor's default (no tags, language "auto")
Docker == <<"d", "o", "c", "k", "e", "r">>
DockerCompose == <<"d", "o", "c", "k", "e", "r", "-", "c", "o", "m", "p", "o", "s", "e">>
DeployScript == <<"d", "e", "p", "l", "o", "y", "-", "s", "c", "r", "i", "p", "t">>
UsesDockerHeavily == <<"u", "s", "e", "s", " ", "d", "o", "c", "k", "e", "r", " ", "h", "e", "a", "v", "i", "l", "y">>

\* the contents of the two snippets whose content is not given
DockerContents == {<<"t", "e", "s", "t">>, <<"u", "s", "e", "s", " ", "d", "o", "c", "k", "e", "r", " ", "h", "e", "a", "v", "i", "l", "y">>}

\* the queries and the limits search is called with on this store
DockerQueries == {Some(Docker), Some(<<" ">>), Some(<<" ", " ">>)}
DockerLimits == {None, Some(-1)}

\* the three snippets are stored, in any order of insertion and under any dates
InitDocker ==
    /\ pc = "idle"
    /\ \E order \in {f \in [1..3 -> 1..3] : \A i, j \in 1..3 : i # j => f[i] # f[j]},
          date \in [1..3 -> 0..MaxClock], c1 \in DockerContents, c2 \in DockerContents :
          rows = {Row(to_db_dict(Snippet(1, Docker, c1, "auto", <<>>, "current",
                                         None, None, date[1])), order[1]),
                  Row(to_db_dict(Snippet(2, DockerCompose, c2, "auto", <<>>, "current",
                                         None, None, date[2])), order[2]),
                  Row(to_db_dict(Snippet(3, DeployScript, UsesDockerHeavily, "auto", <<>>,
                                         "current", None, None, date[3])), order[3])}
    /\ now = MaxClock
    /\ call = None
    /\ snippets = <<>>
    /\ results = <<>>
    /\ raised = None
    /\ sc_query = <<>> /\ sc_snippet = None /\ sc_score = None
    /\ cmd = <<>> /\ fs = {}

NextDocker ==
    \/ \E query \in DockerQueries, limit \in DockerLimits :
          Search(query, None, None, limit)
    \/ Return

SpecDocker == InitDocker /\ [][NextDocker]_vars

\* ------------------------------------------------------------- properties
\* the arguments of the search call that has returned
Called == call # None
Query == Val(call).query
Limit == Val(call).limit
Scored == sc_score # None

\* where the snippet s stands in the list the store returned
Pos(s) == CHOOSE k \in 1..Len(snippets) : snippets[k] = s

\* C1: the score _calculate_score returns is an integer from 0 to 100, for
\* every query and every snippet.
C1_ScoreInRange == Scored => Val(sc_score) \in 0..100

\* C2: search with limit=0 returns the empty list, whatever the query, the
\* filters and the store.
C2_LimitZeroEmpty == (Called /\ Limit = Some(0)) => results = <<>>

\* C3: a query equal to the snippet's name, both lower-cased, scores exactly
\* 100, whatever the tags and the content.
C3_ExactNameIs100 ==
    (Scored /\ Lower(sc_query) = Lower(sc_snippet.name)) => Val(sc_score) = 100

\* C3 happens: the query is the name in another case, and the snippet has tags
C3_Witness ==
    /\ Scored
    /\ Lower(sc_query) = Lower(sc_snippet.name)
    /\ sc_query # sc_snippet.name
    /\ sc_snippet.tags # <<>>

\* C4 as stated: a non-empty query that is a case-insensitive substring of the
\* name and is not the name itself (q != S.name) scores exactly 95.
C4_SubstringNotSameString ==
    (/\ Scored
     /\ sc_query # <<>>
     /\ Contains(Lower(sc_snippet.name), Lower(sc_query))
     /\ sc_query # sc_snippet.name) => Val(sc_score) = 95

\* C4, amended: a non-empty query that is a case-insensitive substring of the
\* name and does not equal the name when both are lower-cased scores exactly
\* 95, whatever the tags and the content.
C4_SubstringIs95 ==
    (/\ Scored
     /\ sc_query # <<>>
     /\ Contains(Lower(sc_snippet.name), Lower(sc_query))
     /\ Lower(sc_query) # Lower(sc_snippet.name)) => Val(sc_score) = 95

\* C4 happens: the query is in the name only when case is ignored, and the
\* snippet has a tag that holds the query too
C4_Witness ==
    /\ Scored
    /\ sc_query # <<>>
    /\ Contains(Lower(sc_snippet.name), Lower(sc_query))
    /\ ~Contains(sc_snippet.name, sc_query)
    /\ Len(sc_snippet.name) > Len(sc_query)
    /\ \E i \in 1..Len(sc_snippet.tags) : Contains(sc_snippet.tags[i], Lower(sc_query))
    /\ Val(sc_score) = 95

\* C5: with a non-empty query the results are in non-increasing order of
\* score, and results of equal score stand in the order the store returned
\* their snippets in.
C5_SortedStable ==
    (Called /\ Truthy(Query)) =>
        \A i, j \in 1..Len(results) :
            i < j =>
                /\ results[i].score >= results[j].score
                /\ results[i].score = results[j].score =>
                       Pos(results[i].snippet) < Pos(results[j].snippet)

\* C5 happens: two results have the same score
C5_Witness ==
    /\ Called
    /\ Truthy(Query)
    /\ \E i, j \in 1..Len(results) : i < j /\ results[i].score = results[j].score

\* C6: with a non-empty query and no limit, a snippet the store returned is
\* in the results exactly if its score is above 0; no snippet is there twice,
\* and every result is a snippet the store returned.
C6_PositiveScoresOnly ==
    (Called /\ Truthy(Query) /\ Limit = None) =>
        /\ \A k \in 1..Len(snippets) :
              (\E i \in 1..Len(results) : results[i].snippet = snippets[k])
                  <=> _calculate_score(Val(Query), snippets[k]) > 0
        /\ \A i, j \in 1..Len(results) :
              i # j => results[i].snippet # results[j].snippet
        /\ \A i \in 1..Len(results) :
              \E k \in 1..Len(snippets) : results[i].snippet = snippets[k]

\* C6 happens: one snippet of the store's list is kept and another dropped
C6_Witness ==
    /\ Called
    /\ Truthy(Query)
    /\ Limit = None
    /\ results # <<>>
    /\ Len(results) < Len(snippets)

\* C7: with no query (None) and no limit, the results are the snippets the
\* store returned, one each, in the store's order, all with score 100.
C7_NoQueryAll ==
    (Called /\ Query = None /\ Limit = None) =>
        /\ Len(results) = Len(snippets)
        /\ \A i \in 1..Len(results) :
              results[i] = [snippet |-> snippets[i], score |-> 100]

\* C7 happens: the store returned two snippets and both are results
C7_Witness ==
    /\ Called
    /\ Query = None
    /\ Limit = None
    /\ Len(snippets) >= 2
    /\ Len(results) >= 2

\* C8: search(query="") returns the list search(query=None) returns for the
\* same store output and the same limit.
C8_EmptyQueryAsNone ==
    (Called /\ Query = Some(<<>>)) => results = search(None, snippets, Limit)

\* C8 happens: the query is "" and snippets are returned
C8_Witness ==
    /\ Called
    /\ Query = Some(<<>>)
    /\ Len(results) >= 2

\* C9: with a limit n >= 1, the results are the first min(n, k) entries of the
\* k entries the same call returns without a limit; with a query, no entry
\* left out has a higher score than one kept.
C9_LimitIsPrefix ==
    (Called /\ Limit # None /\ Val(Limit) >= 1) =>
        LET full == search(Query, snippets, None)
            n == Min(Val(Limit), Len(full))
        IN  /\ results = SubSeq(full, 1, n)
            /\ Len(results) <= Val(Limit)
            /\ Truthy(Query) =>
                  \A i \in 1..n, j \in (n + 1)..Len(full) :
                      results[i].score >= full[j].score

\* C9 happens: a query, a limit of 1, and two matches of different scores
C9_Witness ==
    /\ Called
    /\ Truthy(Query)
    /\ Limit = Some(1)
    /\ Len(results) = 1
    /\ LET full == search(Query, snippets, None)
       IN  Len(full) = 2 /\ full[1].score > full[2].score

\* the tags of a stored row, as a set
TagsOf(row) == {from_db_dict(row).tags[i] : i \in 1..Len(from_db_dict(row).tags)}

\* C10: the store's filtered retrieval returns exactly the stored snippets
\* whose language equals the language filter, if one is given, and one of
\* whose tags is an element of the tag filter, if one is given.
C10_FilterExact ==
    Called =>
        {snippets[i].id : i \in 1..Len(snippets)}
            = {row.id : row \in
                  {r \in rows :
                      /\ TruthyWord(Val(call).language) =>
                            r.language = Val(Val(call).language)
                      /\ Truthy(Val(call).tags) =>
                            \E i \in 1..Len(Val(Val(call).tags)) :
                                Val(Val(call).tags)[i] \in TagsOf(r)}}

C12_QueryTrimmed ==
    (Called /\ Query # None) =>
        results = search(Some(strip(Val(Query))), snippets, Limit)

\* C13: search called with a negative limit raises InvalidArgument and
\* returns no list.
C13_NegativeLimitRaises ==
    (Called /\ Limit # None /\ Val(Limit) < 0) =>
        raised = Some("InvalidArgument") /\ results = <<>>

\* C20: with the snippets docker, docker-compose and deploy-script (content
\* "uses docker heavily") stored, search(query="docker") returns the three, in
\* this order, with the scores 100, 95 and a score below 95, whatever order
\* the store returns them in.
C20_DockerScenario ==
    (/\ Called /\ Query = Some(Docker) /\ Limit = None
     /\ {row.name : row \in rows} = {Docker, DockerCompose, DeployScript}
     /\ \A row \in rows : row.name = DeployScript => row.content = UsesDockerHeavily) =>
        /\ Len(results) = 3
        /\ results[1].snippet.name = Docker /\ results[1].score = 100
        /\ results[2].snippet.name = DockerCompose /\ results[2].score = 95
        /\ results[3].snippet.name = DeployScript /\ results[3].score < 95

\* C20 happens: the store returned deploy-script first and docker last
C20_Witness ==
    /\ Called /\ Query = Some(Docker) /\ Limit = None
    /\ Len(snippets) = 3
    /\ snippets[1].name = DeployScript
    /\ snippets[3].name = Docker
    /\ Len(results) = 3

\* C14: creating a snippet whose name a stored snippet already has fails with
\* an error and leaves the store as it was: the stored snippet keeps every
\* field and no row is added.
C14_DuplicateNameFails ==
    [][\A p \in Payloads :
          (Create(p) /\ \E row \in rows : row.name = p.name) =>
              raised' = Some("IntegrityError") /\ rows' = rows]_vars

\* C14 happens: a create has failed on a store whose snippet of that name has
\* a content no new snippet is created with
C14_Witness ==
    /\ pc = "returned"
    /\ raised = Some("IntegrityError")
    /\ \E row \in rows : \A p \in Payloads : row.name = p.name => row.content # p.content

\* the query is neither the name nor a part of it, both lower-cased
Fuzzy == Scored /\ ~Contains(Lower(sc_snippet.name), Lower(sc_query))

\* the three partial scores of the scored snippet, and their largest
NameRatio == ratio(Lower(sc_query), Lower(sc_snippet.name))
NameFuzzy == Int09(NameRatio)
TagScore == tag_score(Lower(sc_query), sc_snippet.tags)
ContentScore == content_score(Lower(sc_query), sc_snippet.content)
Total == Max(Max(NameFuzzy, TagScore), ContentScore)

\* how many of the three signals are there, the name counting above threshold
Signals(name, threshold) ==
    (IF name > threshold THEN 1 ELSE 0) + (IF TagScore > 0 THEN 1 ELSE 0)
        + (IF ContentScore > 0 THEN 1 ELSE 0)

\* C15 as stated: when the query is neither the name nor a substring of it,
\* the score is min(100, floor(total * 1.1)) if more than one of nameFuzzy > 60
\* (nameFuzzy the ratio weighted by 0.9 and floored), tagScore > 0 and
\* contentScore > 0 holds, and the total otherwise.
C15_BoostOnWeightedName ==
    Fuzzy => Val(sc_score) = IF Signals(NameFuzzy, 60) > 1
                             THEN Min(100, Int11(Total)) ELSE Total

\* C15: when the query is neither the name nor a substring of it, the score
\* is min(100, floor(total * 1.1)) if more than one of ratio > 60 (the name
\* similarity ratio before the 0.9 weight), tagScore > 0 and contentScore > 0
\* holds, and the total otherwise.
C15_BoostOnRawRatio ==
    Fuzzy => Val(sc_score) = IF Signals(NameRatio, 60) > 1
                             THEN Min(100, Int11(Total)) ELSE Total

\* C15 happens: the ratio is above 60 and its weighted value is not, one more
\* signal is there, and the score is the boosted total
C15_Witness ==
    /\ Fuzzy
    /\ NameRatio > 60 /\ NameFuzzy <= 60
    /\ TagScore = 0 /\ ContentScore > 0
    /\ Val(sc_score) = Min(100, Int11(Total))
    /\ Val(sc_score) > Total

\* C16: search has no effect on the store: every step in which a call of
\* search returns, whatever its query, filters and limit, leaves the set of
\* stored snippets and every field of each as they were.
C16_SearchReadsOnly == [][(Called' /\ call' # call) => rows' = rows]_vars

\* C16 happens: a search has returned snippets of a store whose rows were
\* written at an earlier time
C16_Witness ==
    /\ Called
    /\ results # <<>>
    /\ \E row \in rows : row.updated_at < now

\* C17: a SearchEngine is constructed with a reference to a store, and its
\* searches read that store only: the construction SearchEngine(database)
\* returns an engine, that is, it never raises.
C17_EngineTakesStore == raised # Some("TypeError")

\* C18: the stored updated_at of a snippet never decreases: a step that
\* leaves the snippet of an id in the store leaves it with an updated_at not
\* below the one it had, whatever updated_at it was created with.
C18_UpdatedAtNeverDecreases ==
    [][\A old \in rows, new \in rows' :
          (old.id = new.id /\ old.rowid = new.rowid) =>
              new.updated_at >= old.updated_at]_vars

\* the tags a row stores
StoredTags(row) == IF row.tags # <<>> THEN json_loads(row.tags) ELSE <<>>

\* C19: in every reachable state, after any creates, updates, tag adds and
\* tag removes, every tag of every stored snippet is trimmed, lower-cased and
\* not empty.
C19_StoredTagsNormalized ==
    \A row \in rows : \A i \in 1..Len(StoredTags(row)) :
        LET tag == StoredTags(row)[i]
        IN  tag = Lower(strip(tag)) /\ tag # <<>>

\* the query is a part of one of the scored snippet's tags, both lower-cased
InSomeTag ==
    \E i \in 1..Len(sc_snippet.tags) :
        Contains(Lower(sc_snippet.tags[i]), Lower(sc_query))

\* C21: a snippet one of whose tags holds the query as a case-insensitive
\* substring scores at least 70, and a search for that query over a store
\* returning the snippet has it in its result.
C21_TagHitAtLeast70 ==
    (Scored /\ InSomeTag) =>
        /\ Val(sc_score) >= 70
        /\ LET rs == search(Some(sc_query), <<sc_snippet>>, None)
           IN  Len(rs) = 1 /\ rs[1].snippet = sc_snippet /\ rs[1].score >= 70

\* C21 happens: the tag holds the query and is longer than it, and neither
\* the name nor the content holds the query
C21_Witness ==
    /\ Scored /\ InSomeTag
    /\ sc_query # <<>>
    /\ \A i \in 1..Len(sc_snippet.tags) : Lower(sc_snippet.tags[i]) # Lower(sc_query)
    /\ ~Contains(Lower(sc_snippet.name), Lower(sc_query))
    /\ ~Contains(Lower(sc_snippet.content), Lower(sc_query))
    /\ Val(sc_score) >= 70

\* C22 as stated: a snippet without tags whose name neither equals nor holds
\* the query scores strictly below 95.
C22_NoTagsBelow95 ==
    (Fuzzy /\ sc_snippet.tags = <<>>) => Val(sc_score) < 95

\* C22: a snippet without tags whose name neither equals nor holds the query
\* scores at most 99, and at most 54, below the 95 of a name that holds the
\* query, when the name similarity ratio is at most 60.
C22_NoTagsBounds ==
    (Fuzzy /\ sc_snippet.tags = <<>>) =>
        /\ Val(sc_score) <= 99
        /\ NameRatio <= 60 => Val(sc_score) <= 54

\* C22 happens: with a ratio of at most 60 the content holds the query and
\* gives the score; and with a ratio above 60 the boost brings a score of 95
C22_Witness ==
    /\ Fuzzy /\ sc_snippet.tags = <<>>
    /\ \/ /\ NameRatio <= 60
          /\ Contains(Lower(sc_snippet.content), Lower(sc_query))
          /\ Val(sc_score) = ContentScore
          /\ ContentScore > NameFuzzy
       \/ /\ NameRatio > 60
          /\ Val(sc_score) >= 95

\* str.count: the occurrences of the query in the lower-cased content that do
\* not overlap, from the left
Occurrences == Count(Lower(sc_snippet.content), Lower(sc_query))

\* the query is a part of the content and not of the name, both lower-cased
InContent == Fuzzy /\ Contains(Lower(sc_snippet.content), Lower(sc_query))

\* C23: when the query is a case-insensitive substring of the content and not
\* of the name, the content score is min(50, 20 + 5 * n) for n occurrences of
\* the query in the lower-cased content (25 for one, 50 from six on), and the
\* total before the boost is the largest of the weighted name score, the tag
\* score and this content score.
C23_ContentScore ==
    InContent =>
        LET contentScore == Min(50, 20 + 5 * Occurrences)
            total == Max(Max(NameFuzzy, TagScore), contentScore)
        IN  /\ Occurrences = 1 => contentScore = 25
            /\ Occurrences >= 6 => contentScore = 50
            /\ Val(sc_score) = IF Signals(NameRatio, 60) > 1
                               THEN Min(100, Int11(total)) ELSE total

\* C23 happens: seven occurrences, no other signal, and the score is the cap
C23_Witness ==
    /\ InContent
    /\ Occurrences = 7
    /\ TagScore = 0 /\ NameFuzzy = 0
    /\ Val(sc_score) = 50

\* C24: when a statement inside a get_connection block raises, the writes
\* made on the connection are rolled back, the exception reaches the caller
\* and the store holds what it held when the connection was opened; the
\* writes are committed only when the block ends without an exception.
C24_RollbackOnException ==
    (cmd # <<>>) =>
        /\ Conn.at = "block" => rows = Conn.before
        /\ (Conn.at = "closed" /\ raised # None) => rows = Conn.before
        /\ (Conn.at = "closed" /\ raised = None) => rows = Conn.table

\* C24 happens: the block made a write and then a statement raised
C24_Witness ==
    /\ cmd # <<>>
    /\ Conn.at = "closed"
    /\ raised # None
    /\ Conn.table # Conn.before
    /\ Conn.before # {}

\* the block was Database.update's: one UPDATE and nothing else
OneUpdate ==
    /\ cmd # <<>>
    /\ Conn.at = "closed"
    /\ Len(Conn.log) = 1
    /\ Conn.log[1].op = "UPDATE"

\* C25: update with a snippet whose id is not in the store raises nothing and
\* leaves the store as it was: no snippet is added and none is changed.
C25_UpdateAbsentId ==
    (OneUpdate /\ \A row \in Conn.before : row.id # Conn.log[1].id) =>
        raised = None /\ rows = Conn.before

\* C25 happens: the store is not empty, and the snippet of the absent id has
\* the name of a stored one
C25_Witness ==
    /\ OneUpdate
    /\ \A row \in Conn.before : row.id # Conn.log[1].id
    /\ \E row \in Conn.before : row.name = Conn.log[1].name
    /\ raised = None

\* no two of the rows have the same id or the same name
Unique(table) ==
    \A r1, r2 \in table : r1 # r2 => r1.id # r2.id /\ r1.name # r2.name

\* C27: in every reachable state, after any creates, updates (renaming ones
\* included), deletes and Gist pulls, no two stored snippets have the same
\* name or the same id; an update that would give a snippet the name of
\* another one fails and changes neither.
C27_NamesAndIdsUnique ==
    /\ Unique(rows)
    /\ cmd # <<>> => Unique(Conn.table)
    /\ (/\ OneUpdate
        /\ \E row, other \in Conn.before :
              /\ row.id = Conn.log[1].id
              /\ other.id # row.id
              /\ other.name = Conn.log[1].name) =>
           raised = Some("IntegrityError") /\ rows = Conn.before

\* C27 happens: an update to the name of another stored snippet has failed
C27_Witness ==
    /\ OneUpdate
    /\ raised = Some("IntegrityError")
    /\ Cardinality(rows) = 2
    /\ \E row \in rows : row.id = Conn.log[1].id /\ row.name # Conn.log[1].name
    /\ \E row \in rows : row.gist_id # None

\* ---------------------------------------------------------------------
\* runner.py: SnippetRunner.run and the files it makes and removes.
\* A path is <<directory>> or <<directory, file name>>; fs holds the paths
\* that exist; cmd holds run's local variables while it is in progress.
\* ---------------------------------------------------------------------

\* at most this many files are left in the directories together
MaxFiles == 3

Getcwd == "getcwd"
CallerDir == "temp_dir"
FredoDir == "fredo_"

ExecutionModes == {"current", "isolated"}

RunLanguages == {"bash", "python", "rust", "cobol"}

Commands == {"bash", "python3", "rust-script"}

\* EXECUTORS, the command of each of the languages above
EXECUTORS == [language \in {"bash", "python", "rust"} |-> CASE language = "bash" -> "bash" [] language = "python" -> "python3" [] language = "rust" -> "rust-script"]

\* the snippet's language, set explicitly and in lower case
detect_language(snippet) == snippet.language

can_execute(language, which) == IF language \notin DOMAIN EXECUTORS THEN <<FALSE, Some("Unsupported language")>> ELSE IF EXECUTORS[language] \notin which THEN <<FALSE, Some("not found")>> ELSE <<TRUE, None>>

get_file_extension(language) == CASE language = "python" -> ".py" [] language \in {"bash", "shell"} -> ".sh" [] language = "rust" -> ".rs" [] OTHER -> ".txt"

\* "U+2713" stands for the one character of that code point
Latin1 == {"l", "s", " "}

Encodings == {"utf-8", "latin-1"}

\* text mode "w" encodes what is written with the locale's encoding
Encodable(content, encoding) == encoding = "utf-8" \/ \A i \in 1..Len(content) : content[i] \in Latin1

RunContents == {<<"l", "s">>, <<"l", "s", " ", "U+2713">>}

RunSnippets == [language : RunLanguages, execution_mode : ExecutionModes, content : RunContents]

CwdArgs == {None, Some(CallerDir), Some(Getcwd)}

Dir(d) == <<d>>

Files(table) == {p \in table : Len(p) = 2}

\* the name tempfile picks: one that no file of the directory has
TempName(d, suffix) == <<"tmp", CHOOSE i \in 1..(MaxFiles + 1) : <<d, <<"tmp", i, suffix>>>> \notin fs, suffix>>

OutputTxt == <<"output", 0, ".txt">>

rmtree(table, d) == {p \in table : p[1] # d}

Run == cmd[1]

Running(at) == pc = "idle" /\ cmd # <<>> /\ Run.at = at

InitRun ==
    /\ pc = "idle"
    /\ rows = {}
    /\ now = 0
    /\ call = None
    /\ snippets = <<>>
    /\ results = <<>>
    /\ raised = None
    /\ sc_query = <<>> /\ sc_snippet = None /\ sc_score = None
    /\ cmd = <<>> /\ fs = {Dir(Getcwd), Dir(CallerDir)}

\* the caller makes its directory (again)
TemporaryDirectory ==
    /\ pc = "idle" /\ cmd = <<>>
    /\ Dir(CallerDir) \notin fs
    /\ fs' = fs \cup {Dir(CallerDir)}
    /\ UNCHANGED <<rows, now, call, snippets, results, raised, sc_query, sc_snippet, sc_score, pc, cmd>>

\* run, lines 111-138: refuse, or pick the directory, make the file and write
\* the content into it
run(snippet, cwd, which, encoding) ==
    LET language == detect_language(snippet)
        can == can_execute(language, which)
        d == IF cwd # None THEN Val(cwd) ELSE IF snippet.execution_mode = "isolated" THEN FredoDir ELSE Getcwd
        made == IF cwd = None /\ snippet.execution_mode = "isolated" THEN fs \cup {Dir(FredoDir)} ELSE fs
        f == <<d, TempName(d, get_file_extension(snippet.language))>>
        local == [at |-> "finally", mode |-> snippet.execution_mode, language |-> language, arg |-> cwd, cwd |-> Some(d), temp_file |-> None, created |-> None, exc |-> None, before |-> fs]
    IN  /\ pc = "idle" /\ cmd = <<>>
        /\ Cardinality(Files(fs)) < MaxFiles
        /\ IF ~can[1]
           THEN /\ cmd' = <<[local EXCEPT !.at = "refused", !.cwd = None, !.exc = Some("RuntimeError")]>>
                /\ raised' = Some("RuntimeError")
                /\ pc' = "returned"
                /\ fs' = fs
           ELSE /\ raised' = raised
                /\ pc' = pc
                /\ IF Dir(d) \notin made
                   THEN /\ cmd' = <<[local EXCEPT !.exc = Some("FileNotFoundError")]>>
                        /\ fs' = made
                   ELSE /\ fs' = made \cup {f}
                        /\ IF Encodable(snippet.content, encoding)
                           THEN cmd' = <<[local EXCEPT !.at = "written", !.temp_file = Some(f), !.created = Some(f)]>>
                           ELSE cmd' = <<[local EXCEPT !.created = Some(f), !.exc = Some("UnicodeEncodeError")]>>
    /\ UNCHANGED <<rows, now, call, snippets, results, sc_query, sc_snippet, sc_score>>

RunSnippet ==
    \E snippet \in RunSnippets, cwd \in CwdArgs, which \in SUBSET Commands, encoding \in Encodings : run(snippet, cwd, which, encoding)

\* what subprocess.run does: the exit code of the script, or an exception
Outcomes == {Some(0), Some(1), None}

\* lines 141-155: chmod, then the script runs in cwd; it may write a file there
Execute ==
    /\ Running("written")
    /\ \E outcome \in Outcomes, output \in BOOLEAN :
        /\ cmd' = <<[Run EXCEPT !.at = "finally", !.exc = IF outcome = None THEN Some("OSError") ELSE None]>>
        /\ fs' = IF output /\ outcome # None THEN fs \cup {<<Val(Run.cwd), OutputTxt>>} ELSE fs
    /\ UNCHANGED <<rows, now, call, snippets, results, raised, sc_query, sc_snippet, sc_score, pc>>

\* lines 157-170: the finally block, then run returns or raises
Finally ==
    LET unlinked == IF Run.temp_file # None /\ Val(Run.temp_file) \in fs THEN fs \ {Val(Run.temp_file)} ELSE fs
    IN  /\ Running("finally")
        /\ fs' = IF Run.mode = "isolated" /\ Val(Run.cwd) # Getcwd THEN rmtree(unlinked, Val(Run.cwd)) ELSE unlinked
        /\ cmd' = <<[Run EXCEPT !.at = "done"]>>
        /\ raised' = Run.exc
        /\ pc' = "returned"
        /\ UNCHANGED <<rows, now, call, snippets, results, sc_query, sc_snippet, sc_score>>

NextRun ==
    \/ TemporaryDirectory
    \/ RunSnippet
    \/ Execute
    \/ Finally
    \/ Return

SpecRun == InitRun /\ [][NextRun]_vars

Ended == pc = "returned" /\ cmd # <<>> /\ Run.at \in {"done", "refused"}

\* C26: when run returns or raises, the temporary script file it made is gone;
\* when run refuses to execute it raises RuntimeError and has made no file
\* and no directory.
C26_TempFileRemoved ==
    Ended =>
        /\ Run.created # None => Val(Run.created) \notin fs
        /\ Run.at = "refused" => raised = Some("RuntimeError") /\ fs = Run.before

\* C28: the directory the caller passed to run still exists when run returns.
C28_CallerCwdSurvives ==
    (Ended /\ Run.at = "done" /\ raised = None /\ Run.arg # None /\ Dir(Val(Run.arg)) \in Run.before) => Dir(Val(Run.arg)) \in fs

\* ---------------------------------------------------------------------
\* commands.py: two fredo commands run at the same time on one database.
\* cmd[p] is command p: what was typed, where it stands, the snippet it
\* holds, and how it ended. Each Database call is one transaction.
\* ---------------------------------------------------------------------

Procs == {1, 2}

Shell == [command |-> "", at |-> "shell", name |-> <<>>, language |-> "", tags |-> <<>>, snippet |-> None, content |-> None, exit |-> None, read_at |-> None, wrote_at |-> None]

\* the transactions committed by the commands in progress, so far
Writes == Cardinality({q \in Procs : cmd[q].wrote_at # None})

\* uuid4 of command p: an id no row and no other command has
uuid4_of(p) == CHOOSE id \in 1..(2 * MaxRows + 2) : id % 2 = p % 2 /\ (\A row \in rows : row.id # id) /\ \A other \in 1..(2 * MaxRows + 2) : (other % 2 = p % 2 /\ other < id) => \E row \in rows : row.id = other

\* Database.create as INSERT OR REPLACE
create_in_replacing(table, snippet) == [rows |-> {row \in table : row.name # snippet.name /\ row.id # snippet.id} \cup {Row(to_db_dict(snippet), NextRowid(table))}, raised |-> None]

\* Database.create(snippet) on a table: the table after it, and what it raised
create_in(table, snippet) == IF InsertFails(table, to_db_dict(snippet)) THEN [rows |-> table, raised |-> Some("IntegrityError")] ELSE [rows |-> table \cup {Row(to_db_dict(snippet), NextRowid(table))}, raised |-> None]

\* Database.update(snippet) on a table at a time of the clock
update_in(table, snippet, at) == LET data == to_db_dict([snippet EXCEPT !.updated_at = at]) IN IF UpdateFails(table, data) THEN [rows |-> table, raised |-> Some("IntegrityError")] ELSE [rows |-> {IF row.id = data.id THEN Row(data, row.rowid) ELSE row : row \in table}, raised |-> None]

\* Database.get_by_name(name)
get_by_name(table, name) == IF \E row \in table : row.name = name THEN Some(from_db_dict(CHOOSE row \in table : row.name = name)) ELSE None

\* raise typer.Exit(code), or the end of the command
Exited(p, code) == [cmd[p] EXCEPT !.at = "exited", !.exit = Some(code)]

\* what a command leaves when it ends after Database.create or update
Ended_with(p, res, snippet) == [Exited(p, IF res.raised = None THEN 0 ELSE 1) EXCEPT !.snippet = Some(snippet), !.content = Some(snippet.content), !.wrote_at = IF res.raised = None THEN Some(Writes) ELSE None]

InitCommands ==
    /\ pc = "idle"
    /\ rows = {}
    /\ now = 0
    /\ call = None
    /\ snippets = <<>>
    /\ results = <<>>
    /\ raised = None
    /\ sc_query = <<>> /\ sc_snippet = None /\ sc_score = None
    /\ cmd = [p \in Procs |-> Shell] /\ fs = {}

\* add, lines 54-69: the check for the name, then the editor opens
AddCheck(p, payload) ==
    /\ cmd[p].at = "shell"
    /\ NextRowid(rows) + Cardinality({q \in Procs : cmd[q].at = "editor" /\ cmd[q].command = "add"}) <= MaxRows
    /\ LET typed == [cmd[p] EXCEPT !.command = "add", !.name = payload.name, !.language = payload.language, !.tags = payload.tags, !.read_at = Some(Writes)]
       IN  IF get_by_name(rows, payload.name) # None
           THEN cmd' = [cmd EXCEPT ![p] = [typed EXCEPT !.at = "exited", !.exit = Some(1)]]
           ELSE cmd' = [cmd EXCEPT ![p] = [typed EXCEPT !.at = "editor"]]
    /\ UNCHANGED <<rows, now, call, snippets, results, raised, sc_query, sc_snippet, sc_score, pc, fs>>

\* add, lines 71-92: the snippet built from what the editor gave, created
AddCreate(p, content) ==
    /\ cmd[p].at = "editor" /\ cmd[p].command = "add"
    /\ LET snippet == Snippet(uuid4_of(p), cmd[p].name, content, cmd[p].language, cmd[p].tags, "current", None, None, now)
           res == create_in(rows, snippet)
       IN  /\ rows' = res.rows
           /\ cmd' = [cmd EXCEPT ![p] = Ended_with(p, res, snippet)]
    /\ UNCHANGED <<now, call, snippets, results, raised, sc_query, sc_snippet, sc_score, pc, fs>>

\* edit, lines 100-113: the snippet read by name, then the editor opens
EditRead(p, name) ==
    /\ cmd[p].at = "shell"
    /\ LET typed == [cmd[p] EXCEPT !.command = "edit", !.name = name, !.read_at = Some(Writes)]
           snippet == get_by_name(rows, name)
       IN  IF snippet = None
           THEN cmd' = [cmd EXCEPT ![p] = [typed EXCEPT !.at = "exited", !.exit = Some(1)]]
           ELSE cmd' = [cmd EXCEPT ![p] = [typed EXCEPT !.at = "editor", !.snippet = snippet]]
    /\ UNCHANGED <<rows, now, call, snippets, results, raised, sc_query, sc_snippet, sc_score, pc, fs>>

\* edit, lines 115-129: the content set on the snippet read, and the update
EditWrite(p, content) ==
    /\ cmd[p].at = "editor" /\ cmd[p].command = "edit"
    /\ LET snippet == [Val(cmd[p].snippet) EXCEPT !.content = content]
           res == update_in(rows, snippet, now)
       IN  /\ rows' = res.rows
           /\ cmd' = [cmd EXCEPT ![p] = Ended_with(p, res, snippet)]
    /\ UNCHANGED <<now, call, snippets, results, raised, sc_query, sc_snippet, sc_score, pc, fs>>

\* tag add, lines 359-363: the snippet read by name
TagAddRead(p, name, tags) ==
    /\ cmd[p].at = "shell"
    /\ LET typed == [cmd[p] EXCEPT !.command = "tag add", !.name = name, !.tags = tags, !.read_at = Some(Writes)]
           snippet == get_by_name(rows, name)
       IN  IF snippet = None
           THEN cmd' = [cmd EXCEPT ![p] = [typed EXCEPT !.at = "exited", !.exit = Some(1)]]
           ELSE cmd' = [cmd EXCEPT ![p] = [typed EXCEPT !.at = "read", !.snippet = snippet]]
    /\ UNCHANGED <<rows, now, call, snippets, results, raised, sc_query, sc_snippet, sc_score, pc, fs>>

\* tag add, lines 365-375: the tags joined and the update
TagAddWrite(p) ==
    /\ cmd[p].at = "read" /\ cmd[p].command = "tag add"
    /\ \E new \in Lists(Elements(Val(cmd[p].snippet).tags) \cup Elements(cmd[p].tags)) :
          LET snippet == [Val(cmd[p].snippet) EXCEPT !.tags = new]
              res == update_in(rows, snippet, now)
          IN  /\ rows' = res.rows
              /\ cmd' = [cmd EXCEPT ![p] = Ended_with(p, res, snippet)]
    /\ UNCHANGED <<now, call, snippets, results, raised, sc_query, sc_snippet, sc_score, pc, fs>>

\* the commands have ended and new ones can be typed
Prompt ==
    /\ \A p \in Procs : cmd[p].at \in {"shell", "exited"}
    /\ \E p \in Procs : cmd[p].at = "exited"
    /\ cmd' = [p \in Procs |-> Shell]
    /\ UNCHANGED <<rows, now, call, snippets, results, raised, sc_query, sc_snippet, sc_score, pc, fs>>

\* what is typed on the command lines: add with a name, a language and tags,
\* edit and tag add with a name, tag add with tags
CommandPayloads == {p \in Payloads : p.language = "bash"}

CommandNames == {p.name : p \in CommandPayloads}

CommandTagArgs == {tags \in TagArgs : \A i \in 1..Len(tags) : strip(tags[i]) = tags[i]}

NextCommands ==
    \/ \E p \in Procs, payload \in CommandPayloads : AddCheck(p, payload)
    \/ \E p \in Procs, content \in Contents : AddCreate(p, content)
    \/ \E p \in Procs, name \in CommandNames : EditRead(p, name)
    \/ \E p \in Procs, content \in Contents : EditWrite(p, content)
    \/ \E p \in Procs, name \in CommandNames, tags \in CommandTagArgs : TagAddRead(p, name, tags)
    \/ \E p \in Procs : TagAddWrite(p)
    \/ Prompt

SpecCommands == InitCommands /\ [][NextCommands]_vars

AllExited == DOMAIN cmd = Procs /\ \A p \in Procs : cmd[p].at = "exited"

\* two add commands of one name that both passed the check and went on to create
TwoAdds == AllExited /\ cmd[1].command = "add" /\ cmd[2].command = "add" /\ cmd[1].name = cmd[2].name /\ cmd[1].snippet # None /\ cmd[2].snippet # None

\* C29: of two concurrent add commands for one name that both passed the
\* check, exactly one ends with exit code 0 and the other with 1; one row of
\* that name is stored, and it is the snippet of the command that ended with 0.
C29_ConcurrentAddsOneWins ==
    TwoAdds =>
        /\ Cardinality({row \in rows : row.name = cmd[1].name}) = 1
        /\ \E p \in Procs :
              /\ cmd[p].exit = Some(0)
              /\ \A q \in Procs \ {p} : cmd[q].exit = Some(1)
              /\ \A row \in rows : row.name = cmd[1].name => row.id = Val(cmd[p].snippet).id /\ row.content = Val(cmd[p].content)

C29_Witness == TwoAdds /\ cmd[1].content # cmd[2].content

\* C30: when tag add commits after edit has read the snippet and before edit
\* writes it back, the stored snippet has edit's content and the added tags.
C30_EditKeepsAddedTags ==
    \A e, t \in Procs :
        (/\ AllExited
         /\ cmd[e].command = "edit" /\ cmd[t].command = "tag add"
         /\ cmd[e].name = cmd[t].name
         /\ cmd[e].read_at = Some(0) /\ cmd[t].wrote_at = Some(0) /\ cmd[e].wrote_at = Some(1))
        => \E row \in rows :
              /\ row.name = cmd[e].name
              /\ row.content = Val(cmd[e].content)
              /\ Elements(cmd[t].tags) \subseteq Elements(json_loads(row.tags))
====
